---- MODULE Spec2Model ----
(***************************************************************************)
(* Model of the harvesting engine of Icewav3/SteamScraping:                *)
(*   - RateLimiter            (src/src/RateLimiter.py, and its copy in     *)
(*                             src/src/SteamSpyScraper.py)                 *)
(*   - FileSystem             (src/src/FileSystem.py): append_jsonl,       *)
(*                             append_line, read_lines, save_json          *)
(*   - BaseScraper            (src/src/BaseScraper.py): log_error,         *)
(*                             save_progress, load_progress                *)
(*   - SteamSpyScraper.scrape, RAWGScraper.scrape, IGDBScraper.scrape      *)
(*   - IGDBScraper._request and _get_access_token                          *)
(*   - the runners run_steamspy.py, run_rawg.py, run_igdb.py               *)
(*                                                                         *)
(* Eight specifications share the module.  SpecRL runs concurrent callers  *)
(* of one RateLimiter against a clock, SpecRLFair the same under the event *)
(* loop's fairness.  SpecFS runs the FileSystem operations                 *)
(* statement by statement, with failures and process kills.  Spec runs     *)
(* whole scrape sessions, one after the other, over the files of one daily *)
(* directory, with filesystem failures and kills.  SpecRun runs one        *)
(* session whose filesystem calls all return, on the files an earlier      *)
(* session left.  SpecE2E runs one SteamSpy session on an empty directory  *)
(* with distinct identifiers and successful requests.  SpecAuth runs the   *)
(* requests of an IGDB session against a server that answers as it likes.  *)
(* SpecMain runs the invocations of one provider's runner over several     *)
(* days, from the credential check to the exit status.                     *)
(*                                                                         *)
(* File content is a sequence of integers.  NL is the newline; what the    *)
(* other integers stand for depends on the file: the JSON text of a record *)
(* in the output file (JsonLine), a decimal digit in the progress file     *)
(* (Str, TextLine), a message in the error log (ErrMsg), a field of the    *)
(* metadata document (Metadata).                                           *)
(***************************************************************************)
EXTENDS Integers, Sequences, FiniteSets, TLC

VARIABLES
    \* ---- RateLimiter (SpecRL)
    interval,       \* RateLimiter.interval
    clock,          \* asyncio.get_event_loop().time()
    last_called,    \* RateLimiter.last_called
    lock,           \* RateLimiter.lock: the caller holding it, or NoCaller
    rlPc,           \* per caller: position in __aenter__
    rlWake,         \* per caller: the clock value at which its sleep ends
    permits,        \* number of permits granted so far (history)
    prevGrant,      \* last_called before the latest grant, -1 before any (history)
    waiters,        \* asyncio.Lock's queue of callers waiting for the lock
    held            \* per caller: the `async with self.rate_limiter` blocks it is inside

VARIABLES
    \* ---- one FileSystem call at a time, statement by statement (SpecFS)
    fsOp,           \* "append_jsonl", "append_line" or "save_json"
    fsData,         \* the text the call has to write (serialised)
    fsPc,           \* position in the call
    fsTarget,       \* content of target_path
    fsTemp,         \* content of temp_path
    fsTempExists,   \* temp_path exists
    fsPre,          \* content of target_path when the call started (history)
    fsExc,          \* an exception is in flight
    fsFailedAt,     \* the step at which the call failed or was killed (history)
    fsUnlinkErr,    \* os.unlink(temp_path) of the call raised OSError (history)
    fsCalls         \* number of calls made so far (history)

VARIABLES
    \* ---- scrape sessions over one daily directory (Spec)
    adapter,        \* "steamspy", "rawg" or "igdb": the scraper class that runs
    pages,          \* self.pages
    outFile,        \* content of self.output_file
    ledFile,        \* content of self.progress_file
    errFile,        \* content of self.error_file
    metaFile,       \* content of self.metadata_file, <<>> when absent
    pc,             \* position of the process in scrape
    run,            \* number of the session (process) that runs
    scraped_ids,    \* scrape's local scraped_ids
    page,           \* scrape's loop variable page
    app_ids,        \* the identifiers listed by the current page
    idx,            \* position in app_ids (from 1)
    new_count,      \* SteamSpy: new_count of the current page
    total_scraped,  \* scrape's total_scraped
    data,           \* the fetched record waiting to be written (its id)
    ctx,            \* "list" or "detail": the request whose error is logged
    ret,            \* the value scrape returned, -1 while there is none
    faults,         \* filesystem errors and kills so far (history)
    written,        \* identifiers save_progress completed for in this run (history)
    fsErr,          \* a FileSystem call raised in this run (history)
    doneRuns        \* number of runs in which scrape returned (history)

VARIABLES
    \* ---- what the latest step of scrape did, and what the run did (history)
    resp,           \* the answer to the request the latest step sent
    io,             \* the latest step's effects: acquire, request, read, write
    pageNew,        \* an item of the current page was persisted
    listed,         \* the identifiers the pages of this run listed
    appended,       \* append_jsonl calls that returned in this run
    marked,         \* save_progress calls that returned in this run
    cbCalls,        \* progress_callback invocations for the current page
    cbArgs          \* the arguments of the latest invocation, <<>> for none

VARIABLES
    \* ---- IGDBScraper._request, one request of scrape at a time (SpecAuth)
    access_token,   \* self.access_token, None or a token
    token_fresh,    \* datetime.now() < self.token_expires_at
    auPc,           \* position in the innermost _request call
    depth,          \* number of _request calls on the stack
    sends,          \* posts of this request to the API endpoint (history)
    auths,          \* posts of this request to the token endpoint (history)
    auLogs,         \* log_error calls of this request (history)
    auRet,          \* what the outermost _request returned
    auCalls         \* number of requests scrape made so far (history)

VARIABLES
    \* ---- one invocation of a runner (run_steamspy.py, run_rawg.py,
    \* ---- run_igdb.py) after the other, over the daily directories (SpecMain)
    runner,         \* the provider whose runner is invoked
    credentials,    \* the environment holds the provider's credentials
    date,           \* the calendar day datetime.now() gives
    today,          \* FileSystem.today, 0 while no FileSystem is constructed
    dirs,           \* the days whose daily directory of the provider exists
    ledgers,        \* per day, the content of the provider's progress file
    outputs,        \* per day, the content of the provider's output file
    mnPc,           \* position of the invocation
    mnScraped,      \* scrape's scraped_ids
    mnTotal,        \* scrape's total_scraped
    http,           \* the invocation sent an HTTP request (history)
    exitCode,       \* the status given to sys.exit, -1 while there is none
    outcome,        \* how main() ended: "config", "returned", "threw"
    fresh,          \* FileSystem.__init__ created the daily directory (history)
    invocations     \* number of invocations so far (history)

rlVars == <<interval, clock, last_called, lock, rlPc, rlWake, permits, prevGrant,
           waiters, held>>
fsVars == <<fsOp, fsData, fsPc, fsTarget, fsTemp, fsTempExists, fsPre, fsExc,
            fsFailedAt, fsUnlinkErr, fsCalls>>

cfgVars == <<adapter, pages>>
fileVars == <<outFile, ledFile, errFile, metaFile>>
memVars == <<scraped_ids, page, app_ids, idx, new_count, total_scraped, data, ctx>>
histVars == <<resp, io, pageNew, listed, appended, marked, cbCalls, cbArgs>>
enVars == <<cfgVars, fileVars, memVars, pc, run, ret, faults, written, fsErr,
            doneRuns, histVars>>

auVars == <<access_token, token_fresh, auPc, depth, sends, auths, auLogs,
            auRet, auCalls>>

mnVars == <<runner, credentials, date, today, dirs, ledgers, outputs, mnPc,
            mnScraped, mnTotal, http, exitCode, outcome, fresh, invocations>>

vars == <<rlVars, fsVars, enVars, auVars, mnVars>>

(***************************************************************************)
(* Bounds                                                                  *)
(***************************************************************************)
MaxCallers == 2
MaxInterval == 2
MaxClock == 4
MaxPermits == 2
MaxCalls == 2
MaxPages == 2
MaxPageLen == 2
MaxRuns == 2
MaxFaults == 1
MaxDepth == 3
MaxDays == 2
MaxInvocations == 2
MaxItems == 2

(***************************************************************************)
(* RateLimiter                                                             *)
(***************************************************************************)
NoCaller == 0
Callers == 1..MaxCallers

\* The subtraction of WaitTime with its operands the wrong way round.
WaitTimeSwapped(T, now, last) == T - (last - now)

\* wait_time = self.interval - (now - self.last_called)
WaitTime(T, now, last) == T - (now - last)

\* __aenter__ without its `async with self.lock`.
LockIgnored(owner) == TRUE

\* `async with self.lock`: the lock can be taken when nobody holds it
LockFree(owner) == owner = NoCaller

RLStart ==
    /\ interval \in 0..MaxInterval
    /\ clock \in 0..1
    /\ last_called = 0
    /\ lock = NoCaller
    /\ rlPc = [c \in Callers |-> "idle"]
    /\ rlWake = [c \in Callers |-> 0]
    /\ permits = 0
    /\ prevGrant = -1
    /\ waiters = <<>>
    /\ held = [c \in Callers |-> 0]

\* A permit is granted: self.last_called = asyncio.get_event_loop().time()
Grant ==
    /\ prevGrant' = IF permits = 0 THEN -1 ELSE last_called
    /\ last_called' = clock
    /\ permits' = permits + 1

\* The lock still held by the caller whose permit was granted.
LockKept(c) == c

\* The end of `async with self.lock`: the lock is released.
LockReleased(c) == NoCaller

\* __aenter__ up to its first suspension, or from the moment the lock wakes
\* the caller at the head of its queue.  A caller inside a block of the
\* limiter may enter it again (IGDB sends a request anew inside the block of
\* the request that was answered 401).  With the lock free the caller takes
\* it and reads the clock; a positive wait_time suspends it in asyncio.sleep
\* with the lock held, otherwise the permit is granted and the lock released
\* without any suspension in between.
RLEnter(c) ==
    /\ \/ /\ rlPc[c] \in {"idle", "granted"}
          /\ permits < MaxPermits
          /\ waiters = <<>>
          /\ UNCHANGED waiters
       \/ /\ rlPc[c] = "queued"
          /\ Head(waiters) = c
          /\ waiters' = Tail(waiters)
    /\ LockFree(lock)
    /\ IF WaitTime(interval, clock, last_called) > 0
       THEN /\ lock' = c
            /\ rlPc' = [rlPc EXCEPT ![c] = "sleeping"]
            /\ rlWake' = [rlWake EXCEPT ![c] =
                              clock + WaitTime(interval, clock, last_called)]
            /\ UNCHANGED <<last_called, permits, prevGrant, held>>
       ELSE /\ Grant
            /\ rlPc' = [rlPc EXCEPT ![c] = "granted"]
            /\ held' = [held EXCEPT ![c] = @ + 1]
            /\ UNCHANGED <<lock, rlWake>>
    /\ UNCHANGED <<interval, clock>>
    /\ UNCHANGED <<fsVars, enVars, auVars, mnVars>>

\* __aenter__ with the lock held by another caller, or with callers already
\* waiting for it: the caller joins the end of the lock's queue.
RLQueue(c) ==
    /\ rlPc[c] \in {"idle", "granted"}
    /\ permits < MaxPermits
    /\ ~LockFree(lock) \/ waiters # <<>>
    /\ rlPc' = [rlPc EXCEPT ![c] = "queued"]
    /\ waiters' = Append(waiters, c)
    /\ UNCHANGED <<interval, clock, last_called, lock, rlWake, permits, prevGrant,
                   held>>
    /\ UNCHANGED <<fsVars, enVars, auVars, mnVars>>

\* asyncio.sleep(wait_time) returns, not before wait_time has passed; the
\* permit is granted and the lock released.
RLWake(c) ==
    /\ rlPc[c] = "sleeping"
    /\ clock >= rlWake[c]
    /\ Grant
    /\ lock' = LockReleased(c)
    /\ rlPc' = [rlPc EXCEPT ![c] = "granted"]
    /\ held' = [held EXCEPT ![c] = @ + 1]
    /\ UNCHANGED <<interval, clock, rlWake, waiters>>
    /\ UNCHANGED <<fsVars, enVars, auVars, mnVars>>

\* __aexit__ (pass): the caller leaves its innermost
\* `async with self.rate_limiter` block.
RLExit(c) ==
    /\ rlPc[c] = "granted"
    /\ held' = [held EXCEPT ![c] = @ - 1]
    /\ rlPc' = [rlPc EXCEPT ![c] = IF held[c] = 1 THEN "idle" ELSE "granted"]
    /\ UNCHANGED <<interval, clock, last_called, lock, rlWake, permits, prevGrant,
                   waiters>>
    /\ UNCHANGED <<fsVars, enVars, auVars, mnVars>>

\* The event loop's monotonic clock advances, past MaxClock only as far as a
\* sleeping caller still has to wait.
Tick ==
    /\ \/ clock < MaxClock
       \/ \E c \in Callers : rlPc[c] = "sleeping" /\ clock < rlWake[c]
    /\ clock' = clock + 1
    /\ UNCHANGED <<interval, last_called, lock, rlPc, rlWake, permits, prevGrant,
                   waiters, held>>
    /\ UNCHANGED <<fsVars, enVars, auVars, mnVars>>

RLNext ==
    \/ \E c \in Callers : RLEnter(c)
    \/ \E c \in Callers : RLQueue(c)
    \/ \E c \in Callers : RLWake(c)
    \/ \E c \in Callers : RLExit(c)
    \/ Tick

(***************************************************************************)
(* FileSystem                                                              *)
(***************************************************************************)
NL == -1

Prefixes(s) == {SubSeq(s, 1, k) : k \in 0..Len(s)}

\* append_jsonl: json.dump(data, f); f.write('\n')
JsonLine(rec) == <<rec, NL>>

\* append_line: f.write(f"{line}\n")
TextLine(line) == line \o <<NL>>

\* The text a call writes to its temporary file.
Serialised(op, d) ==
    CASE op = "append_jsonl" -> JsonLine(d)
      [] op = "append_line"  -> TextLine(d)
      [] op = "save_json"    -> d

\* open(target_path, 'w'): the existing content is dropped.
OpenTruncate(content) == <<>>

\* open(target_path, 'a'): the existing content is kept.
OpenAppend(content) == content

\* The text put in front of the existing content.
AppendWholeFront(content, text) == text \o content

\* dst.write(src.read()); dst.flush(); os.fsync(dst.fileno()) when all of it
\* succeeds.
AppendWhole(content, text) == content \o text

\* The same statements when the write fails (disk full, I/O error) or the
\* process is killed while they run: write(2) on a regular file may have
\* transferred any part of the buffer, none and all included.
AppendTorn(content, text) == {content \o p : p \in Prefixes(text)}

\* The temporary file's content added to the target instead of replacing it.
RenameAppends(temp, target) == target \o temp

\* shutil.move(temp_path, target_path) inside one directory: os.rename.
Rename(temp, target) == temp

AppendOps == {"append_jsonl", "append_line"}

FSInputs ==
    {<<"append_jsonl", 1>>, <<"append_jsonl", 12>>,
     <<"append_line", <<1>> >>, <<"append_line", <<1, 2>> >>,
     <<"save_json", <<2, 3>> >>, <<"save_json", <<1, 0>> >>}

FSTargets == {<<>>, <<12, NL>>, <<1, 2, NL>>, <<2, 3>>}

FSIdle ==
    /\ fsOp = "none"
    /\ fsData = <<>>
    /\ fsPc = "idle"
    /\ fsTemp = <<>>
    /\ fsTempExists = FALSE
    /\ fsPre = fsTarget
    /\ fsExc = FALSE
    /\ fsFailedAt = "none"
    /\ fsUnlinkErr = FALSE
    /\ fsCalls = 0

FSStart ==
    /\ fsTarget \in FSTargets
    /\ FSIdle

\* The call starts: tempfile.mkstemp(dir=self.daily_dir, ...) creates an empty
\* temporary file and the try block is entered.
FSCall(op, d) ==
    /\ fsPc \in {"idle", "returned", "raised", "killed"}
    /\ fsCalls < MaxCalls
    /\ fsOp' = op
    /\ fsData' = Serialised(op, d)
    /\ fsPre' = fsTarget
    /\ fsTemp' = <<>>
    /\ fsTempExists' = TRUE
    /\ fsExc' = FALSE
    /\ fsFailedAt' = "none"
    /\ fsCalls' = fsCalls + 1
    /\ fsPc' = "try"
    /\ fsUnlinkErr' = FALSE
    /\ UNCHANGED fsTarget
    /\ UNCHANGED <<rlVars, enVars, auVars, mnVars>>

\* mkstemp raises: the call fails before its try block, no file is created.
FSMkstempFail(op, d) ==
    /\ fsPc \in {"idle", "returned", "raised", "killed"}
    /\ fsCalls < MaxCalls
    /\ fsOp' = op
    /\ fsData' = Serialised(op, d)
    /\ fsPre' = fsTarget
    /\ fsTemp' = <<>>
    /\ fsTempExists' = FALSE
    /\ fsExc' = TRUE
    /\ fsFailedAt' = "mkstemp"
    /\ fsCalls' = fsCalls + 1
    /\ fsPc' = "raised"
    /\ fsUnlinkErr' = FALSE
    /\ UNCHANGED fsTarget
    /\ UNCHANGED <<rlVars, enVars, auVars, mnVars>>

\* with os.fdopen(temp_fd, 'w') as f: write, flush, fsync.
FSWriteTemp ==
    /\ fsPc = "try"
    /\ fsTemp' = fsData
    /\ fsPc' = "tempSynced"
    /\ UNCHANGED <<fsOp, fsData, fsTarget, fsTempExists, fsPre, fsExc,
                   fsFailedAt, fsCalls>>
    /\ UNCHANGED fsUnlinkErr
    /\ UNCHANGED <<rlVars, enVars, auVars, mnVars>>

\* The write to the temporary file raises; part of the text may be in it.
FSWriteTempFail ==
    /\ fsPc = "try"
    /\ fsTemp' \in Prefixes(fsData)
    /\ fsExc' = TRUE
    /\ fsFailedAt' = "temp"
    /\ fsPc' = "cleanup"
    /\ UNCHANGED <<fsOp, fsData, fsTarget, fsTempExists, fsPre, fsCalls>>
    /\ UNCHANGED fsUnlinkErr
    /\ UNCHANGED <<rlVars, enVars, auVars, mnVars>>

\* open(temp_path, 'r') and open(target_path, 'a').
FSOpenTarget ==
    /\ fsPc = "tempSynced"
    /\ fsOp \in AppendOps
    /\ fsTarget' = OpenAppend(fsTarget)
    /\ fsPc' = "targetOpen"
    /\ UNCHANGED <<fsOp, fsData, fsTemp, fsTempExists, fsPre, fsExc,
                   fsFailedAt, fsCalls>>
    /\ UNCHANGED fsUnlinkErr
    /\ UNCHANGED <<rlVars, enVars, auVars, mnVars>>

\* One of the two opens raises: nothing was written to the target.
FSOpenTargetFail ==
    /\ fsPc = "tempSynced"
    /\ fsOp \in AppendOps
    /\ fsExc' = TRUE
    /\ fsFailedAt' = "between"
    /\ fsPc' = "cleanup"
    /\ UNCHANGED <<fsOp, fsData, fsTarget, fsTemp, fsTempExists, fsPre, fsCalls>>
    /\ UNCHANGED fsUnlinkErr
    /\ UNCHANGED <<rlVars, enVars, auVars, mnVars>>

\* dst.write(src.read()); dst.flush(); os.fsync(dst.fileno())
FSAppendTarget ==
    /\ fsPc = "targetOpen"
    /\ fsTarget' = AppendWhole(fsTarget, fsTemp)
    /\ fsPc' = "cleanup"
    /\ UNCHANGED <<fsOp, fsData, fsTemp, fsTempExists, fsPre, fsExc,
                   fsFailedAt, fsCalls>>
    /\ UNCHANGED fsUnlinkErr
    /\ UNCHANGED <<rlVars, enVars, auVars, mnVars>>

\* The append raises (OSError from write, flush or fsync).
FSAppendTargetFail ==
    /\ fsPc = "targetOpen"
    /\ fsTarget' \in AppendTorn(fsTarget, fsTemp)
    /\ fsExc' = TRUE
    /\ fsFailedAt' = "append"
    /\ fsPc' = "cleanup"
    /\ UNCHANGED <<fsOp, fsData, fsTemp, fsTempExists, fsPre, fsCalls>>
    /\ UNCHANGED fsUnlinkErr
    /\ UNCHANGED <<rlVars, enVars, auVars, mnVars>>

\* save_json: shutil.move(temp_path, target_path), then the call returns.
FSMove ==
    /\ fsPc = "tempSynced"
    /\ fsOp = "save_json"
    /\ fsTarget' = Rename(fsTemp, fsTarget)
    /\ fsTempExists' = FALSE
    /\ fsPc' = "returned"
    /\ UNCHANGED <<fsOp, fsData, fsTemp, fsPre, fsExc, fsFailedAt, fsCalls>>
    /\ UNCHANGED fsUnlinkErr
    /\ UNCHANGED <<rlVars, enVars, auVars, mnVars>>

\* The rename raises: the except branch is entered.
FSMoveFail ==
    /\ fsPc = "tempSynced"
    /\ fsOp = "save_json"
    /\ fsExc' = TRUE
    /\ fsFailedAt' = "rename"
    /\ fsPc' = "cleanup"
    /\ UNCHANGED <<fsOp, fsData, fsTarget, fsTemp, fsTempExists, fsPre, fsCalls>>
    /\ UNCHANGED fsUnlinkErr
    /\ UNCHANGED <<rlVars, enVars, auVars, mnVars>>

\* A cleanup that leaves the temporary file where it is.
UnlinkSkipped(exists, ok) == exists

\* os.unlink(temp_path): the file is gone unless unlink raises (ok = FALSE).
Unlink(exists, ok) == exists /\ ~ok

\* finally (append_jsonl, append_line) or except (save_json):
\* os.unlink(temp_path); an OSError of unlink is swallowed (ok = FALSE).
\* Then the call returns, or the exception in flight propagates.
FSCleanup(ok) ==
    /\ fsPc = "cleanup"
    /\ fsTempExists' = Unlink(fsTempExists, ok)
    /\ fsUnlinkErr' = (fsTempExists /\ ~ok)
    /\ fsPc' = IF fsExc THEN "raised" ELSE "returned"
    /\ UNCHANGED <<fsOp, fsData, fsTarget, fsTemp, fsPre, fsExc, fsFailedAt,
                   fsCalls>>
    /\ UNCHANGED <<rlVars, enVars, auVars, mnVars>>

\* The process is killed while the temporary file is being written.
FSKillInTemp ==
    /\ fsPc = "try"
    /\ fsTemp' \in Prefixes(fsData)
    /\ fsFailedAt' = "temp"
    /\ fsPc' = "killed"
    /\ UNCHANGED <<fsOp, fsData, fsTarget, fsTempExists, fsPre, fsExc, fsCalls>>
    /\ UNCHANGED fsUnlinkErr
    /\ UNCHANGED <<rlVars, enVars, auVars, mnVars>>

\* The process is killed after the temporary file was written and synced and
\* before anything is written to the target.
FSKillBetween ==
    /\ fsPc \in {"tempSynced", "targetOpen"}
    /\ fsFailedAt' = "between"
    /\ fsPc' = "killed"
    /\ UNCHANGED <<fsOp, fsData, fsTarget, fsTemp, fsTempExists, fsPre, fsExc,
                   fsCalls>>
    /\ UNCHANGED fsUnlinkErr
    /\ UNCHANGED <<rlVars, enVars, auVars, mnVars>>

\* The process is killed while dst.write / dst.flush / os.fsync run.
FSKillInAppend ==
    /\ fsPc = "targetOpen"
    /\ fsTarget' \in AppendTorn(fsTarget, fsTemp)
    /\ fsFailedAt' = "append"
    /\ fsPc' = "killed"
    /\ UNCHANGED <<fsOp, fsData, fsTemp, fsTempExists, fsPre, fsExc, fsCalls>>
    /\ UNCHANGED fsUnlinkErr
    /\ UNCHANGED <<rlVars, enVars, auVars, mnVars>>

\* The process is killed before the temporary file is unlinked.
FSKillInCleanup ==
    /\ fsPc = "cleanup"
    /\ fsFailedAt' = IF fsFailedAt = "none" THEN "cleanup" ELSE fsFailedAt
    /\ fsPc' = "killed"
    /\ UNCHANGED <<fsOp, fsData, fsTarget, fsTemp, fsTempExists, fsPre, fsExc,
                   fsCalls>>
    /\ UNCHANGED fsUnlinkErr
    /\ UNCHANGED <<rlVars, enVars, auVars, mnVars>>

FSNext ==
    \/ \E in \in FSInputs : FSCall(in[1], in[2])
    \/ \E in \in FSInputs : FSMkstempFail(in[1], in[2])
    \/ FSWriteTemp
    \/ FSWriteTempFail
    \/ FSOpenTarget
    \/ FSOpenTargetFail
    \/ FSAppendTarget
    \/ FSAppendTargetFail
    \/ FSMove
    \/ FSMoveFail
    \/ \E ok \in BOOLEAN : FSCleanup(ok)
    \/ FSKillInTemp
    \/ FSKillBetween
    \/ FSKillInAppend
    \/ FSKillInCleanup

(***************************************************************************)
(* FileSystem calls as the scrapers see them: one call, one step           *)
(***************************************************************************)
\* A call of append_jsonl / append_line that returns.
AppendReturns(content, text) == AppendWhole(OpenAppend(content), text)

\* What the target may hold when the call raises, or when the process is
\* killed inside it: the old content (failure before the append), or what an
\* interrupted append left.
AppendInterrupted(content, text) == AppendTorn(OpenAppend(content), text)

\* A call of save_json that returns.
SaveJsonReturns(content, doc) == Rename(doc, content)

\* str.splitlines() of a file content: the lines without their newline, a last
\* line without newline included.
RECURSIVE SplitLines(_)
SplitLines(s) ==
    IF s = <<>> THEN <<>>
    ELSE IF \E k \in 1..Len(s) : s[k] = NL
         THEN LET k == CHOOSE j \in 1..Len(s) :
                           s[j] = NL /\ \A m \in 1..(j - 1) : s[m] # NL
              IN  <<SubSeq(s, 1, k - 1)>> \o SplitLines(SubSeq(s, k + 1, Len(s)))
         ELSE <<s>>

\* read_lines: set(line.strip() for line in ...splitlines() if line.strip())
ReadLines(content) ==
    {SplitLines(content)[k] : k \in 1..Len(SplitLines(content))} \ {<<>>}

(***************************************************************************)
(* BaseScraper                                                             *)
(***************************************************************************)
\* str(appid), str(game.get('id')): the decimal digits of the identifier.
RECURSIVE Str(_)
Str(n) == IF n < 10 THEN <<n>> ELSE Str(n \div 10) \o <<n % 10>>

\* load_progress(progress_file) = self.fs.read_lines(progress_file)
LoadProgress(ledger) == ReadLines(ledger)

\* The identifier looked up as one number, not as its decimal string.
IsDoneInt(id, ids) == <<id>> \in ids

\* The test `str(appid) in scraped_ids` / `game_id in scraped_ids`.
IsDone(id, ids) == Str(id) \in ids

\* What scraped_ids is after save_progress(str(id)): save_progress appends to
\* the progress file only, the set held by scrape is not touched.
ScrapedIdsAfterSave(ids, id) == ids

\* log_error writes "[timestamp] message": one line of the error log.
ErrMsg == <<7>>

(***************************************************************************)
(* SteamSpyScraper.scrape, RAWGScraper.scrape, IGDBScraper.scrape          *)
(***************************************************************************)
Ids == {1, 12}
Adapters == {"steamspy", "rawg", "igdb"}
None == 0

SeqsUpTo(S, n) == UNION {[1..k -> S] : k \in 0..n}

NoRepeat(s) == \A a, b \in 1..Len(s) : a # b => s[a] # s[b]

\* self.page_size of IGDBScraper: the `limit` of the page query.  No listing
\* the model draws is longer than a full page.
page_size == MaxPageLen

\* The identifiers a page listing can hold.  SteamSpy: the keys of a JSON
\* object, so no identifier twice on one page; RAWG: data['results'], a list;
\* IGDB: the JSON array the games endpoint answers.
Listings(a) ==
    IF a = "steamspy"
    THEN {s \in SeqsUpTo(Ids, MaxPageLen) : NoRepeat(s)}
    ELSE SeqsUpTo(Ids, MaxPageLen)

\* The effects of a page request: SteamSpy's _get_all_apps sends it directly,
\* the _request of RAWG sends it inside `async with self.rate_limiter`.
ListEffects(a) ==
    IF a = "steamspy" THEN {"request"} ELSE {"acquire", "request"}

\* range(self.pages) for SteamSpy and IGDB, range(1, self.pages + 1) for RAWG
FirstPage(a) == IF a = "rawg" THEN 1 ELSE 0
LastPage(a, n) == IF a = "rawg" THEN n ELSE n - 1

Running == pc \notin {"idle", "done", "raised", "killed"}

\* What a step did: the answer r to its request ("none" without one) and its
\* effects e, the counts of the run unchanged.
Did(r, e) ==
    /\ resp' = r
    /\ io' = e
    /\ UNCHANGED <<pageNew, listed, appended, marked>>
    /\ UNCHANGED <<cbCalls, cbArgs>>

\* The same for a step that ends the process (see Forget).
DidLast(r, e) ==
    /\ resp' = r
    /\ io' = e
    /\ UNCHANGED <<pageNew, listed, appended, marked>>

\* f"Page {page}" in SteamSpy and RAWG, f"Page {page + 1}" in IGDB.
PageLabel(a, p) == IF a = "igdb" THEN p + 1 ELSE p

\* A loop body that starts without reporting the item.
CallsAfterSilent(n) == n

\* The callback has been invoked once more.
CallsAfter(n) == n + 1

\* The item loop's body starts with `if progress_callback:
\* progress_callback(i, len(app_ids), f"Page {page}")`, i from enumerate,
\* which counts from 0 (idx counts from 1).
ProgressCallback ==
    /\ cbCalls' = CallsAfter(cbCalls)
    /\ cbArgs' = <<idx - 1, Len(app_ids), PageLabel(adapter, page)>>

\* What a step of the item loop did, after it reported the item.
DidItem(r, e) ==
    /\ resp' = r
    /\ io' = e
    /\ UNCHANGED <<pageNew, listed, appended, marked>>
    /\ ProgressCallback

Range(s) == {s[k] : k \in 1..Len(s)}

EnIdle ==
    /\ pc = "idle"
    /\ scraped_ids = {}
    /\ page = 0
    /\ app_ids = <<>>
    /\ idx = 0
    /\ new_count = 0
    /\ total_scraped = 0
    /\ data = None
    /\ ctx = "none"
    /\ ret = -1
    /\ written = {}
    /\ fsErr = FALSE
    /\ resp = "none"
    /\ io = {}
    /\ pageNew = FALSE
    /\ listed = {}
    /\ appended = 0
    /\ marked = 0
    /\ cbCalls = 0
    /\ cbArgs = <<>>

EnStart ==
    /\ adapter \in Adapters
    /\ pages \in 1..MaxPages
    /\ outFile = <<>>
    /\ ledFile = <<>>
    /\ errFile = <<>>
    /\ metaFile = <<>>
    /\ run = 1
    /\ faults = 0
    /\ doneRuns = 0
    /\ EnIdle

\* The process ends (return, exception or kill): its memory is gone.
Forget ==
    /\ scraped_ids' = {}
    /\ page' = 0
    /\ app_ids' = <<>>
    /\ idx' = 0
    /\ new_count' = 0
    /\ total_scraped' = 0
    /\ data' = None
    /\ ctx' = "none"
    /\ cbCalls' = 0
    /\ cbArgs' = <<>>

\* scrape starts: total_scraped = 0; scraped_ids = self.load_progress(...)
Begin ==
    /\ pc = "idle"
    /\ scraped_ids' = LoadProgress(ledFile)
    /\ total_scraped' = 0
    /\ page' = FirstPage(adapter)
    /\ pc' = "list"
    /\ UNCHANGED <<cfgVars, fileVars, app_ids, idx, new_count, data, ctx, run,
                   ret, faults, written, fsErr>>
    /\ Did("none", {"read"})
    /\ UNCHANGED <<doneRuns, rlVars, fsVars, auVars, mnVars>>

\* The page loop is exhausted: go on to the metadata.
PagesDone ==
    /\ pc = "list"
    /\ page > LastPage(adapter, pages)
    /\ pc' = "meta"
    /\ UNCHANGED <<cfgVars, fileVars, memVars, run, ret, faults, written, fsErr>>
    /\ Did("none", {})
    /\ UNCHANGED <<doneRuns, rlVars, fsVars, auVars, mnVars>>

\* What follows a page request that gave nothing (SteamSpy: `if not apps:
\* continue`; RAWG: `if not data or 'results' not in data: break`; IGDB:
\* `if not games or len(games) == 0: break`).
NoPage ==
    IF adapter = "steamspy"
    THEN /\ page' = page + 1
         /\ pc' = "list"
    ELSE /\ page' = page
         /\ pc' = "meta"

\* _get_all_apps(page) / _request("games", ...) answers 200 with a listing.
\* An empty SteamSpy object is `not apps` and an empty IGDB array is
\* `not games`; an empty RAWG result list is an ordinary page with no item.
ListPage(listing) ==
    /\ pc = "list"
    /\ page <= LastPage(adapter, pages)
    /\ IF adapter \in {"steamspy", "igdb"} /\ listing = <<>>
       THEN /\ NoPage
            /\ UNCHANGED <<app_ids, idx, new_count>>
       ELSE /\ app_ids' = listing
            /\ idx' = 1
            /\ new_count' = 0
            /\ page' = page
            /\ pc' = "item"
    /\ UNCHANGED <<cfgVars, fileVars, scraped_ids, total_scraped, data, ctx,
                   run, ret, faults, written, fsErr>>
    /\ resp' = IF listing = <<>> THEN "empty" ELSE "page"
    /\ io' = ListEffects(adapter)
    /\ pageNew' = FALSE
    /\ listed' = listed \cup Range(listing)
    /\ cbCalls' = 0
    /\ cbArgs' = <<>>
    /\ UNCHANGED <<appended, marked>>
    /\ UNCHANGED <<doneRuns, rlVars, fsVars, auVars, mnVars>>

\* RAWG: the answer is 200 with an object that has no 'results' (or is empty).
ListPageNoResults ==
    /\ pc = "list"
    /\ page <= LastPage(adapter, pages)
    /\ adapter = "rawg"
    /\ NoPage
    /\ UNCHANGED <<cfgVars, fileVars, scraped_ids, app_ids, idx, new_count,
                   total_scraped, data, ctx, run, ret, faults, written, fsErr>>
    /\ Did("noresults", ListEffects(adapter))
    /\ UNCHANGED <<doneRuns, rlVars, fsVars, auVars, mnVars>>

\* How a page request can fail.  "auth" is IGDB's _get_access_token finding
\* no valid token and the token endpoint answering with a status other than
\* 200: `if not token: return None` in _request.
ListErrorKinds(a) ==
    IF a = "igdb" THEN {"http", "exc", "auth"} ELSE {"http", "exc"}

\* What a failed page request did: the token request is a plain session.post,
\* outside the rate limiter, and the page request is then never sent.
ListErrorEffects(a, kind) ==
    IF kind = "auth" THEN {"request"} ELSE ListEffects(a)

\* The page request fails: a status other than 200 (log_error inside the try
\* block) or an exception (log_error inside the except block).
ListPageError(kind) ==
    /\ pc = "list"
    /\ page <= LastPage(adapter, pages)
    /\ kind \in ListErrorKinds(adapter)
    /\ ctx' = "list"
    /\ pc' = IF kind \in {"http", "auth"} THEN "logTry" ELSE "logExc"
    /\ UNCHANGED <<cfgVars, fileVars, scraped_ids, page, app_ids, idx, new_count,
                   total_scraped, data, run, ret, faults, written, fsErr>>
    /\ Did(kind, ListErrorEffects(adapter, kind))
    /\ UNCHANGED <<doneRuns, rlVars, fsVars, auVars, mnVars>>

\* The item at idx is already in scraped_ids: continue.
SkipItem ==
    /\ pc = "item"
    /\ idx <= Len(app_ids)
    /\ IsDone(app_ids[idx], scraped_ids)
    /\ idx' = idx + 1
    /\ UNCHANGED <<cfgVars, fileVars, scraped_ids, page, app_ids, new_count,
                   total_scraped, data, ctx, pc, run, ret, faults, written, fsErr>>
    /\ DidItem("none", {})
    /\ UNCHANGED <<doneRuns, rlVars, fsVars, auVars, mnVars>>

\* A detail request sent without `async with self.rate_limiter`.
DetailEffectsUngated(a) == {"request"}

\* What a detail request does: `async with self.rate_limiter:` takes a
\* permit, and inside it session.get sends the request.
DetailEffects(a) == {"acquire", "request"}

\* A detail answer handed on without the test for the hidden record.
DetailDataUnfiltered(result, id) == id

\* What a 200 answer gives the `if data:` / `if details...:` of scrape.
\* SteamSpy: `if data.get("appid") == 999999: return None`; RAWG: the record
\* is used when `details.get('id') and details.get('name')`.
DetailData(result, id) == IF result = "hidden" THEN None ELSE id

\* _fetch_app_details(appid) / _request(f"games/{game_id}") for the item at
\* idx.  "ok": a record comes back; "hidden": SteamSpy's appid 999999, RAWG's
\* record without id or name; "http" and "exc": the request fails.
FetchDetail(result) ==
    /\ pc = "item"
    /\ adapter \in {"steamspy", "rawg"}
    /\ idx <= Len(app_ids)
    /\ ~IsDone(app_ids[idx], scraped_ids)
    /\ CASE result \in {"ok", "hidden"} ->
              IF DetailData(result, app_ids[idx]) # None
              THEN /\ data' = DetailData(result, app_ids[idx])
                   /\ pc' = "appendOut"
                   /\ UNCHANGED <<idx, ctx>>
              ELSE /\ idx' = idx + 1
                   /\ UNCHANGED <<data, pc, ctx>>
         [] result = "http" ->
              /\ ctx' = "detail"
              /\ pc' = "logTry"
              /\ UNCHANGED <<data, idx>>
         [] result = "exc" ->
              /\ ctx' = "detail"
              /\ pc' = "logExc"
              /\ UNCHANGED <<data, idx>>
    /\ UNCHANGED <<cfgVars, fileVars, scraped_ids, page, app_ids, new_count,
                   total_scraped, run, ret, faults, written, fsErr>>
    /\ DidItem(result, DetailEffects(adapter))
    /\ UNCHANGED <<doneRuns, rlVars, fsVars, auVars, mnVars>>

\* A listed record used whether or not it has an id and a name.
ValidatedAlways(valid, id) == id

\* IGDB: `if game.get('id') and game.get('name'):` on the listed record.
Validated(valid, id) == IF valid THEN id ELSE None

\* IGDB writes the listed record itself, without a detail request, when
\* `game.get('id') and game.get('name')`.
ValidateItem(valid) ==
    /\ pc = "item"
    /\ adapter = "igdb"
    /\ idx <= Len(app_ids)
    /\ ~IsDone(app_ids[idx], scraped_ids)
    /\ IF Validated(valid, app_ids[idx]) # None
       THEN /\ data' = Validated(valid, app_ids[idx])
            /\ pc' = "appendOut"
            /\ UNCHANGED idx
       ELSE /\ idx' = idx + 1
            /\ UNCHANGED <<data, pc>>
    /\ UNCHANGED <<cfgVars, fileVars, scraped_ids, page, app_ids, new_count,
                   total_scraped, ctx, run, ret, faults, written, fsErr>>
    /\ DidItem(IF valid THEN "ok" ELSE "hidden", {})
    /\ UNCHANGED <<doneRuns, rlVars, fsVars, auVars, mnVars>>

\* A failed detail request handled as a failed page request.
AfterLogAsPage ==
    /\ NoPage
    /\ UNCHANGED idx

\* After the error is logged the request function returns {} / None.
AfterLog ==
    IF ctx = "list"
    THEN /\ NoPage
         /\ UNCHANGED idx
    ELSE /\ idx' = idx + 1
         /\ page' = page
         /\ pc' = "item"

\* self.log_error(...) returns, in the try block or in the except block.
LogError ==
    /\ pc \in {"logTry", "logExc"}
    /\ errFile' = AppendReturns(errFile, TextLine(ErrMsg))
    /\ AfterLog
    /\ ctx' = "none"
    /\ UNCHANGED <<cfgVars, outFile, ledFile, metaFile, scraped_ids, app_ids,
                   new_count, total_scraped, data, run, ret, faults, written,
                   fsErr>>
    /\ Did("none", {"write"})
    /\ UNCHANGED <<doneRuns, rlVars, fsVars, auVars, mnVars>>

\* self.log_error(...) raises inside the try block: `except Exception as e`
\* of the request function catches the OSError and logs again.
LogErrorFailsInTry ==
    /\ pc = "logTry"
    /\ faults < MaxFaults
    /\ errFile' \in AppendInterrupted(errFile, TextLine(ErrMsg))
    /\ faults' = faults + 1
    /\ fsErr' = TRUE
    /\ pc' = "logExc"
    /\ UNCHANGED <<cfgVars, outFile, ledFile, metaFile, memVars, run, ret,
                   written>>
    /\ Did("none", {"write"})
    /\ UNCHANGED <<doneRuns, rlVars, fsVars, auVars, mnVars>>

\* self.log_error(...) raises inside the except block: the exception leaves
\* the request function and scrape.
LogErrorFailsInExcept ==
    /\ pc = "logExc"
    /\ faults < MaxFaults
    /\ errFile' \in AppendInterrupted(errFile, TextLine(ErrMsg))
    /\ faults' = faults + 1
    /\ fsErr' = TRUE
    /\ pc' = "raised"
    /\ Forget
    /\ UNCHANGED <<cfgVars, outFile, ledFile, metaFile, run, ret, written>>
    /\ DidLast("none", {"write"})
    /\ UNCHANGED <<doneRuns, rlVars, fsVars, auVars, mnVars>>

\* self.fs.append_jsonl(data, self.output_file)
AppendOutput ==
    /\ pc = "appendOut"
    /\ outFile' = AppendReturns(outFile, JsonLine(data))
    /\ pc' = "saveProgress"
    /\ UNCHANGED <<cfgVars, ledFile, errFile, metaFile, memVars, run, ret,
                   faults, written, fsErr>>
    /\ resp' = "none"
    /\ io' = {"write"}
    /\ appended' = appended + 1
    /\ UNCHANGED <<pageNew, listed, marked, cbCalls, cbArgs>>
    /\ UNCHANGED <<doneRuns, rlVars, fsVars, auVars, mnVars>>

\* append_jsonl raises: nothing in scrape catches it.
AppendOutputFails ==
    /\ pc = "appendOut"
    /\ faults < MaxFaults
    /\ outFile' \in AppendInterrupted(outFile, JsonLine(data))
    /\ faults' = faults + 1
    /\ fsErr' = TRUE
    /\ pc' = "raised"
    /\ Forget
    /\ UNCHANGED <<cfgVars, ledFile, errFile, metaFile, run, ret, written>>
    /\ DidLast("none", {"write"})
    /\ UNCHANGED <<doneRuns, rlVars, fsVars, auVars, mnVars>>

\* The counter raised by two for one persisted item.
CountAfterSaveTwice(n) == n + 2

\* new_count += 1 / total_scraped += 1
CountAfterSave(n) == n + 1

\* self.save_progress(str(appid), self.progress_file), then the counter:
\* new_count += 1 (SteamSpy) or total_scraped += 1 (RAWG, IGDB).
SaveProgress ==
    /\ pc = "saveProgress"
    /\ ledFile' = AppendReturns(ledFile, TextLine(Str(data)))
    /\ scraped_ids' = ScrapedIdsAfterSave(scraped_ids, data)
    /\ written' = written \cup {data}
    /\ IF adapter = "steamspy"
       THEN new_count' = CountAfterSave(new_count) /\ UNCHANGED total_scraped
       ELSE total_scraped' = CountAfterSave(total_scraped) /\ UNCHANGED new_count
    /\ idx' = idx + 1
    /\ data' = None
    /\ pc' = "item"
    /\ UNCHANGED <<cfgVars, outFile, errFile, metaFile, page, app_ids, ctx, run,
                   ret, faults, fsErr>>
    /\ resp' = "none"
    /\ io' = {"write"}
    /\ marked' = marked + 1
    /\ pageNew' = TRUE
    /\ UNCHANGED <<listed, appended, cbCalls, cbArgs>>
    /\ UNCHANGED <<doneRuns, rlVars, fsVars, auVars, mnVars>>

\* save_progress raises: nothing in scrape catches it.
SaveProgressFails ==
    /\ pc = "saveProgress"
    /\ faults < MaxFaults
    /\ ledFile' \in AppendInterrupted(ledFile, TextLine(Str(data)))
    /\ faults' = faults + 1
    /\ fsErr' = TRUE
    /\ pc' = "raised"
    /\ Forget
    /\ UNCHANGED <<cfgVars, outFile, errFile, metaFile, run, ret, written>>
    /\ DidLast("none", {"write"})
    /\ UNCHANGED <<doneRuns, rlVars, fsVars, auVars, mnVars>>

\* The page's count assigned to the total, not added to it.
TotalAfterPageAssigned(total, cnt) == cnt

\* total_scraped += new_count
TotalAfterPage(total, cnt) == total + cnt

\* The page delay taken whatever the page persisted.
NeedsPageDelayAlways(p, n, cnt) == p < n - 1

\* if page < self.pages - 1 and new_count > 0
NeedsPageDelay(p, n, cnt) == p < n - 1 /\ cnt > 0

\* All items of the page are processed.  SteamSpy: total_scraped += new_count
\* and, `if page < self.pages - 1 and new_count > 0`, the page delay.  IGDB:
\* `if len(games) < self.page_size: break`.  RAWG: the next page.
EndPage ==
    /\ pc = "item"
    /\ idx > Len(app_ids)
    /\ CASE adapter = "steamspy" ->
              /\ total_scraped' = TotalAfterPage(total_scraped, new_count)
              /\ IF NeedsPageDelay(page, pages, new_count)
                 THEN pc' = "pageDelay" /\ page' = page
                 ELSE pc' = "list" /\ page' = page + 1
         [] adapter = "rawg" ->
              /\ total_scraped' = total_scraped
              /\ pc' = "list"
              /\ page' = page + 1
         [] adapter = "igdb" ->
              /\ total_scraped' = total_scraped
              /\ IF Len(app_ids) < page_size
                 THEN pc' = "meta" /\ page' = page
                 ELSE pc' = "list" /\ page' = page + 1
    /\ UNCHANGED <<cfgVars, fileVars, scraped_ids, app_ids, idx, new_count, data,
                   ctx, run, ret, faults, written, fsErr>>
    /\ Did("none", {})
    /\ UNCHANGED <<doneRuns, rlVars, fsVars, auVars, mnVars>>

\* await asyncio.sleep(self.page_delay) returns.
PageDelay ==
    /\ pc = "pageDelay"
    /\ page' = page + 1
    /\ pc' = "list"
    /\ UNCHANGED <<cfgVars, fileVars, scraped_ids, app_ids, idx, new_count,
                   total_scraped, data, ctx, run, ret, faults, written, fsErr>>
    /\ Did("none", {"sleep"})
    /\ UNCHANGED <<doneRuns, rlVars, fsVars, auVars, mnVars>>

\* "pages_scraped" of the metadata: self.pages (SteamSpy), page (RAWG),
\* page + 1 (IGDB).
PagesScraped ==
    CASE adapter = "steamspy" -> pages
      [] adapter = "rawg" -> page
      [] adapter = "igdb" -> page + 1

\* The metadata this run reports: pages_scraped and the count of the run.
Metadata == <<PagesScraped, total_scraped>>

\* SteamSpy: self.fs.save_json(metadata, self.metadata_file); return
\* total_scraped.
SaveMetadata ==
    /\ pc = "meta"
    /\ adapter = "steamspy"
    /\ metaFile' = SaveJsonReturns(metaFile, Metadata)
    /\ ret' = total_scraped
    /\ doneRuns' = doneRuns + 1
    /\ pc' = "done"
    /\ Forget
    /\ UNCHANGED <<cfgVars, outFile, ledFile, errFile, run, faults, written,
                   fsErr>>
    /\ DidLast("none", {"write"})
    /\ UNCHANGED <<rlVars, fsVars, auVars, mnVars>>

\* SteamSpy: save_json raises; the metadata file is as it was.
SaveMetadataFails ==
    /\ pc = "meta"
    /\ adapter = "steamspy"
    /\ faults < MaxFaults
    /\ faults' = faults + 1
    /\ fsErr' = TRUE
    /\ pc' = "raised"
    /\ Forget
    /\ UNCHANGED <<cfgVars, fileVars, run, ret, written>>
    /\ DidLast("none", {"write"})
    /\ UNCHANGED <<doneRuns, rlVars, fsVars, auVars, mnVars>>

\* RAWG and IGDB: self.save_metadata({...}).  Neither scraper class nor
\* BaseScraper defines save_metadata: the call raises AttributeError.
SaveMetadataMissing ==
    /\ pc = "meta"
    /\ adapter \in {"rawg", "igdb"}
    /\ pc' = "raised"
    /\ Forget
    /\ UNCHANGED <<cfgVars, fileVars, run, ret, faults, written, fsErr>>
    /\ DidLast("none", {})
    /\ UNCHANGED <<doneRuns, rlVars, fsVars, auVars, mnVars>>

\* The process is killed between two FileSystem calls.
Kill ==
    /\ Running
    /\ faults < MaxFaults
    /\ faults' = faults + 1
    /\ pc' = "killed"
    /\ Forget
    /\ UNCHANGED <<cfgVars, fileVars, run, ret, written, fsErr>>
    /\ DidLast("none", {})
    /\ UNCHANGED <<doneRuns, rlVars, fsVars, auVars, mnVars>>

\* The process is killed inside an append_jsonl / append_line call.
KillInAppend ==
    /\ pc \in {"appendOut", "saveProgress", "logTry", "logExc"}
    /\ faults < MaxFaults
    /\ CASE pc = "appendOut" ->
              /\ outFile' \in AppendInterrupted(outFile, JsonLine(data))
              /\ UNCHANGED <<ledFile, errFile>>
         [] pc = "saveProgress" ->
              /\ ledFile' \in AppendInterrupted(ledFile, TextLine(Str(data)))
              /\ UNCHANGED <<outFile, errFile>>
         [] OTHER ->
              /\ errFile' \in AppendInterrupted(errFile, TextLine(ErrMsg))
              /\ UNCHANGED <<outFile, ledFile>>
    /\ faults' = faults + 1
    /\ pc' = "killed"
    /\ Forget
    /\ UNCHANGED <<cfgVars, metaFile, run, ret, written, fsErr>>
    /\ DidLast("none", {"write"})
    /\ UNCHANGED <<doneRuns, rlVars, fsVars, auVars, mnVars>>

\* The scraper is started again on the same day.
NewRun ==
    /\ pc \in {"done", "raised", "killed"}
    /\ run < MaxRuns
    /\ run' = run + 1
    /\ pc' = "idle"
    /\ ret' = -1
    /\ written' = {}
    /\ fsErr' = FALSE
    /\ UNCHANGED <<cfgVars, fileVars, memVars, faults>>
    /\ resp' = "none"
    /\ io' = {}
    /\ pageNew' = FALSE
    /\ listed' = {}
    /\ appended' = 0
    /\ marked' = 0
    /\ UNCHANGED <<cbCalls, cbArgs>>
    /\ UNCHANGED <<doneRuns, rlVars, fsVars, auVars, mnVars>>

\* The steps of a session in which every FileSystem call returns.
RunNext ==
    \/ Begin
    \/ PagesDone
    \/ \E l \in Listings(adapter) : ListPage(l)
    \/ ListPageNoResults
    \/ \E k \in {"http", "exc", "auth"} : ListPageError(k)
    \/ SkipItem
    \/ \E r \in {"ok", "hidden", "http", "exc"} : FetchDetail(r)
    \/ \E v \in BOOLEAN : ValidateItem(v)
    \/ LogError
    \/ AppendOutput
    \/ SaveProgress
    \/ EndPage
    \/ PageDelay
    \/ SaveMetadata
    \/ SaveMetadataMissing

\* A FileSystem call raises, or the process is killed.
FaultNext ==
    \/ LogErrorFailsInTry
    \/ LogErrorFailsInExcept
    \/ AppendOutputFails
    \/ SaveProgressFails
    \/ SaveMetadataFails
    \/ Kill
    \/ KillInAppend

EnNext ==
    \/ RunNext
    \/ FaultNext
    \/ NewRun

(***************************************************************************)
(* IGDBScraper._request and _get_access_token                              *)
(***************************************************************************)
Token == 1

AuIdle ==
    /\ access_token = None
    /\ token_fresh = FALSE
    /\ auPc = "idle"
    /\ depth = 0
    /\ sends = 0
    /\ auths = 0
    /\ auLogs = 0
    /\ auRet = "none"
    /\ auCalls = 0

\* `if self.access_token and self.token_expires_at:
\*      if datetime.now() < self.token_expires_at:`
TokenCached == access_token # None /\ token_fresh

\* A return statement of _request: `return await self._request(...)` hands
\* the value through every call on the stack.
AuReturn(v) ==
    /\ auRet' = v
    /\ depth' = 0
    /\ auPc' = "idle"

\* scrape calls self._request("games", query).
AuCall ==
    /\ auPc = "idle"
    /\ auCalls < MaxCalls
    /\ auCalls' = auCalls + 1
    /\ depth' = 1
    /\ sends' = 0
    /\ auths' = 0
    /\ auLogs' = 0
    /\ auRet' = "none"
    /\ auPc' = "token"
    /\ UNCHANGED <<access_token, token_fresh>>
    /\ UNCHANGED <<rlVars, fsVars, enVars, mnVars>>

\* token = await self._get_access_token() returns the cached token.
AuTokenCached ==
    /\ auPc = "token"
    /\ TokenCached
    /\ auPc' = "acquire"
    /\ UNCHANGED <<access_token, token_fresh, depth, sends, auths, auLogs,
                   auRet, auCalls>>
    /\ UNCHANGED <<rlVars, fsVars, enVars, mnVars>>

\* _get_access_token posts to the token endpoint.  200: the token and its
\* expiry are stored.  Another status or an exception: log_error, and
\* `if not token: return None` in _request.
AuAuthenticate(ok) ==
    /\ auPc = "token"
    /\ ~TokenCached
    /\ auths' = auths + 1
    /\ IF ok
       THEN /\ access_token' = Token
            /\ token_fresh' = TRUE
            /\ auPc' = "acquire"
            /\ UNCHANGED <<depth, auRet, auLogs>>
       ELSE /\ auLogs' = auLogs + 1
            /\ AuReturn("None")
            /\ UNCHANGED <<access_token, token_fresh>>
    /\ UNCHANGED <<sends, auCalls>>
    /\ UNCHANGED <<rlVars, fsVars, enVars, mnVars>>

\* `async with self.rate_limiter:` grants the permit; a call made from
\* inside the `async with` of the call below it acquires again.
AuAcquire ==
    /\ auPc = "acquire"
    /\ auPc' = "send"
    /\ UNCHANGED <<access_token, token_fresh, depth, sends, auths, auLogs,
                   auRet, auCalls>>
    /\ UNCHANGED <<rlVars, fsVars, enVars, mnVars>>

\* self.session.post(url, headers=headers, data=body) is answered.
\* 401: self.access_token = None; return await self._request(endpoint, body).
\* 200: return await resp.json().  Another status, or an exception:
\* log_error and return None.
AuSend(status) ==
    /\ auPc = "send"
    /\ sends' = sends + 1
    /\ CASE status = 401 ->
              /\ depth < MaxDepth
              /\ access_token' = None
              /\ depth' = depth + 1
              /\ auPc' = "token"
              /\ UNCHANGED <<token_fresh, auLogs, auRet>>
         [] status = 200 ->
              /\ AuReturn("json")
              /\ UNCHANGED <<access_token, token_fresh, auLogs>>
         [] OTHER ->
              /\ auLogs' = auLogs + 1
              /\ AuReturn("None")
              /\ UNCHANGED <<access_token, token_fresh>>
    /\ UNCHANGED <<auths, auCalls>>
    /\ UNCHANGED <<rlVars, fsVars, enVars, mnVars>>

\* Time passes beyond self.token_expires_at.
AuExpire ==
    /\ access_token # None
    /\ token_fresh
    /\ token_fresh' = FALSE
    /\ UNCHANGED <<access_token, auPc, depth, sends, auths, auLogs, auRet,
                   auCalls>>
    /\ UNCHANGED <<rlVars, fsVars, enVars, mnVars>>

AuNext ==
    \/ AuCall
    \/ AuTokenCached
    \/ \E ok \in BOOLEAN : AuAuthenticate(ok)
    \/ AuAcquire
    \/ \E st \in {200, 401, 500, 0} : AuSend(st)
    \/ AuExpire

(***************************************************************************)
(* The runners: run_steamspy.py, run_rawg.py, run_igdb.py                  *)
(***************************************************************************)
Days == 1..MaxDays

\* A runner that starts the scraper whatever the environment holds.
NeedsCredentialsNone(a) == FALSE

\* run_rawg.py reads RAWG_API_KEY, run_igdb.py IGDB_CLIENT_ID and
\* IGDB_CLIENT_SECRET; run_steamspy.py reads no credential.
NeedsCredentials(a) == a \in {"rawg", "igdb"}

\* The daily directory computed from the date at each use.
DailyDirNow(constructed, now) == now

\* get_output_path: self.daily_dir / filename, with self.daily_dir computed
\* once, in FileSystem.__init__, from the date of that moment.
DailyDir(constructed, now) == constructed

\* Only SteamSpyScraper.scrape reaches its return statement; RAWG and IGDB
\* end in the call of self.save_metadata, which no class defines.
ScrapeReturns(a) == a = "steamspy"

\* A run is reported as successful whatever it scraped.
ExitCodeAlwaysOk(n) == 0

\* sys.exit(0 if total > 0 else 1)
ExitCode(n) == IF n > 0 THEN 0 ELSE 1

\* No invocation is running.
MnIdle ==
    /\ today = 0
    /\ mnPc = "start"
    /\ mnScraped = {}
    /\ mnTotal = 0
    /\ http = FALSE
    /\ exitCode = -1
    /\ outcome = "none"
    /\ fresh = FALSE

\* The first invocation of a provider's runner, before any daily directory
\* of the provider exists.
MnStart ==
    /\ runner \in Adapters
    /\ credentials \in BOOLEAN
    /\ date = 1
    /\ dirs = {}
    /\ ledgers = [d \in Days |-> <<>>]
    /\ outputs = [d \in Days |-> <<>>]
    /\ invocations = 1
    /\ MnIdle

\* The runner's variables in the specifications that run no runner.
MnOff ==
    /\ runner = "steamspy"
    /\ credentials = TRUE
    /\ date = 1
    /\ dirs = {}
    /\ ledgers = [d \in Days |-> <<>>]
    /\ outputs = [d \in Days |-> <<>>]
    /\ invocations = 1
    /\ MnIdle

\* main() reads the credentials from the environment: `if not api_key: raise
\* ValueError(...)`, caught by `except Exception` of the __main__ block, which
\* calls sys.exit(1).
MnCheck ==
    /\ mnPc = "start"
    /\ IF NeedsCredentials(runner) /\ ~credentials
       THEN /\ outcome' = "config"
            /\ exitCode' = 1
            /\ mnPc' = "exited"
       ELSE /\ mnPc' = "construct"
            /\ UNCHANGED <<outcome, exitCode>>
    /\ UNCHANGED <<runner, credentials, date, today, dirs, ledgers, outputs,
                   mnScraped, mnTotal, http, fresh, invocations>>
    /\ UNCHANGED <<rlVars, fsVars, enVars, auVars>>

\* fs = FileSystem("Data", name): self.today is the date of this moment and
\* the daily directory is created unless it exists.  The scraper is then
\* constructed and its session opened, neither with any I/O.
MnConstruct ==
    /\ mnPc = "construct"
    /\ today' = date
    /\ fresh' = (date \notin dirs)
    /\ dirs' = dirs \cup {date}
    /\ mnPc' = "load"
    /\ UNCHANGED <<runner, credentials, date, ledgers, outputs, mnScraped,
                   mnTotal, http, exitCode, outcome, invocations>>
    /\ UNCHANGED <<rlVars, fsVars, enVars, auVars>>

\* scrape starts: scraped_ids = self.load_progress(self.progress_file), read
\* through get_output_path.
MnLoad ==
    /\ mnPc = "load"
    /\ mnScraped' = LoadProgress(ledgers[DailyDir(today, date)])
    /\ mnTotal' = 0
    /\ mnPc' = "scrape"
    /\ UNCHANGED <<runner, credentials, date, today, dirs, ledgers, outputs,
                   http, exitCode, outcome, fresh, invocations>>
    /\ UNCHANGED <<rlVars, fsVars, enVars, auVars>>

\* scrape sends a request that leads to no write: a page request, or a detail
\* request that fails or gives the hidden record.
MnRequest ==
    /\ mnPc = "scrape"
    /\ ~http
    /\ http' = TRUE
    /\ UNCHANGED <<runner, credentials, date, today, dirs, ledgers, outputs,
                   mnPc, mnScraped, mnTotal, exitCode, outcome, fresh,
                   invocations>>
    /\ UNCHANGED <<rlVars, fsVars, enVars, auVars>>

\* scrape persists an item that is not in scraped_ids: its record is appended
\* to the output file and its identifier to the progress file, both through
\* get_output_path.
MnItem(id) ==
    /\ mnPc = "scrape"
    /\ mnTotal < MaxItems
    /\ ~IsDone(id, mnScraped)
    /\ http' = TRUE
    /\ outputs' = [outputs EXCEPT ![DailyDir(today, date)] =
                       AppendReturns(@, JsonLine(id))]
    /\ ledgers' = [ledgers EXCEPT ![DailyDir(today, date)] =
                       AppendReturns(@, TextLine(Str(id)))]
    /\ mnTotal' = mnTotal + 1
    /\ UNCHANGED <<runner, credentials, date, today, dirs, mnPc, mnScraped,
                   exitCode, outcome, fresh, invocations>>
    /\ UNCHANGED <<rlVars, fsVars, enVars, auVars>>

\* scrape returns total_scraped and main() returns it.
MnReturn ==
    /\ mnPc = "scrape"
    /\ ScrapeReturns(runner)
    /\ outcome' = "returned"
    /\ mnPc' = "finished"
    /\ UNCHANGED <<runner, credentials, date, today, dirs, ledgers, outputs,
                   mnScraped, mnTotal, http, exitCode, fresh, invocations>>
    /\ UNCHANGED <<rlVars, fsVars, enVars, auVars>>

\* An exception leaves scrape and main(): a FileSystem call raised, or RAWG
\* and IGDB reached self.save_metadata.
MnRaise ==
    /\ mnPc = "scrape"
    /\ outcome' = "threw"
    /\ mnPc' = "finished"
    /\ UNCHANGED <<runner, credentials, date, today, dirs, ledgers, outputs,
                   mnScraped, mnTotal, http, exitCode, fresh, invocations>>
    /\ UNCHANGED <<rlVars, fsVars, enVars, auVars>>

\* The __main__ block: sys.exit(0 if total > 0 else 1), and sys.exit(1) in
\* `except Exception`.
MnExit ==
    /\ mnPc = "finished"
    /\ exitCode' = IF outcome = "returned" THEN ExitCode(mnTotal) ELSE 1
    /\ mnPc' = "exited"
    /\ UNCHANGED <<runner, credentials, date, today, dirs, ledgers, outputs,
                   mnScraped, mnTotal, http, outcome, fresh, invocations>>
    /\ UNCHANGED <<rlVars, fsVars, enVars, auVars>>

\* Midnight passes: datetime.now() gives the next day from now on.
MnMidnight ==
    /\ date < MaxDays
    /\ date' = date + 1
    /\ UNCHANGED <<runner, credentials, today, dirs, ledgers, outputs, mnPc,
                   mnScraped, mnTotal, http, exitCode, outcome, fresh,
                   invocations>>
    /\ UNCHANGED <<rlVars, fsVars, enVars, auVars>>

\* The runner is invoked again, in a new process.
MnInvoke ==
    /\ mnPc = "exited"
    /\ invocations < MaxInvocations
    /\ invocations' = invocations + 1
    /\ credentials' \in BOOLEAN
    /\ today' = 0
    /\ mnPc' = "start"
    /\ mnScraped' = {}
    /\ mnTotal' = 0
    /\ http' = FALSE
    /\ exitCode' = -1
    /\ outcome' = "none"
    /\ fresh' = FALSE
    /\ UNCHANGED <<runner, date, dirs, ledgers, outputs>>
    /\ UNCHANGED <<rlVars, fsVars, enVars, auVars>>

MnNext ==
    \/ MnCheck
    \/ MnConstruct
    \/ MnLoad
    \/ MnRequest
    \/ \E id \in Ids : MnItem(id)
    \/ MnReturn
    \/ MnRaise
    \/ MnExit
    \/ MnMidnight
    \/ MnInvoke

(***************************************************************************)
(* Specifications                                                          *)
(***************************************************************************)
RLInit ==
    /\ RLStart /\ fsTarget = <<>> /\ FSIdle /\ AuIdle /\ MnOff
    /\ EnStart /\ adapter = "steamspy" /\ pages = 1
SpecRL == RLInit /\ [][RLNext]_vars

\* The event loop's timer goes on, a sleep whose time has passed returns, and
\* the caller the lock woke runs.
RLFairness ==
    /\ WF_vars(Tick)
    /\ \A c \in Callers : WF_vars(RLWake(c))
    /\ \A c \in Callers : WF_vars(rlPc[c] = "queued" /\ RLEnter(c))
SpecRLFair == RLInit /\ [][RLNext]_vars /\ RLFairness

RLIdle ==
    /\ interval = 0
    /\ clock = 0
    /\ last_called = 0
    /\ lock = NoCaller
    /\ rlPc = [c \in Callers |-> "idle"]
    /\ rlWake = [c \in Callers |-> 0]
    /\ permits = 0
    /\ prevGrant = -1
    /\ waiters = <<>>
    /\ held = [c \in Callers |-> 0]

FSInit ==
    /\ FSStart /\ RLIdle /\ AuIdle /\ MnOff
    /\ EnStart /\ adapter = "steamspy" /\ pages = 1
SpecFS == FSInit /\ [][FSNext]_vars

Init == EnStart /\ RLIdle /\ fsTarget = <<>> /\ FSIdle /\ AuIdle /\ MnOff
Next == EnNext
Spec == Init /\ [][Next]_vars

\* One session without filesystem failure, started on the files an earlier
\* session of the day left:
\* none, a persisted identifier, two of them, or a record whose identifier
\* was not marked before the process was killed.
Resumable ==
    { <<(<<>>), (<<>>)>>,
      <<JsonLine(1), TextLine(Str(1))>>,
      <<JsonLine(12), (<<>>)>>,
      <<JsonLine(1) \o JsonLine(12), TextLine(Str(1)) \o TextLine(Str(12))>> }

RunStart ==
    /\ adapter \in Adapters
    /\ pages \in 1..MaxPages
    /\ \E f \in Resumable : outFile = f[1] /\ ledFile = f[2]
    /\ errFile = <<>>
    /\ metaFile = <<>>
    /\ run = 1
    /\ faults = 0
    /\ doneRuns = 0
    /\ EnIdle

RunInit ==
    RunStart /\ RLIdle /\ fsTarget = <<>> /\ FSIdle /\ AuIdle /\ MnOff
SpecRun == RunInit /\ [][RunNext]_vars

\* One SteamSpy session on an empty directory whose pages list pairwise
\* distinct identifiers and whose detail requests all succeed.
E2EIds == {1, 2, 3, 12}
E2EListings == {s \in SeqsUpTo(E2EIds, MaxPageLen) : NoRepeat(s)}

E2ENext ==
    \/ Begin
    \/ PagesDone
    \/ \E l \in E2EListings : Range(l) \cap listed = {} /\ ListPage(l)
    \/ FetchDetail("ok")
    \/ AppendOutput
    \/ SaveProgress
    \/ EndPage
    \/ PageDelay
    \/ SaveMetadata

E2EInit ==
    /\ EnStart /\ adapter = "steamspy"
    /\ RLIdle /\ fsTarget = <<>> /\ FSIdle /\ AuIdle /\ MnOff
SpecE2E == E2EInit /\ [][E2ENext]_vars

\* The requests of one IGDB session, against a server that answers as it
\* likes.  The scraper is constructed without a token.
AuInit ==
    /\ AuIdle
    /\ RLIdle /\ fsTarget = <<>> /\ FSIdle /\ MnOff
    /\ EnStart /\ adapter = "igdb" /\ pages = 1
SpecAuth == AuInit /\ [][AuNext]_vars

\* The invocations of one provider's runner over the days.
MnInit ==
    /\ MnStart
    /\ RLIdle /\ fsTarget = <<>> /\ FSIdle /\ AuIdle
    /\ EnStart /\ adapter = "steamspy" /\ pages = 1
SpecMain == MnInit /\ [][MnNext]_vars

(***************************************************************************)
(* Properties                                                              *)
(***************************************************************************)
\* The lines of an output file that are one whole record, and the records of
\* one identifier among them.
RecordLines(content, id) ==
    {k \in 1..Len(SplitLines(content)) : SplitLines(content)[k] = <<id>>}

HasRecord(content, id) == RecordLines(content, id) # {}

\* C1: every identifier read from the progress file has a record in the
\* output file, in every state, the states a kill leaves behind included.
C1_WriteThenMark ==
    \A s \in ReadLines(ledFile) :
        \E id \in Ids : Str(id) = s /\ HasRecord(outFile, id)

\* C2: when a second run that follows a completed first run has completed,
\* no identifier has two records in the output file and the second run's
\* return value is the number of identifiers it persisted.
C2_ResumeIdempotent ==
    (run = 2 /\ pc = "done" /\ doneRuns = 2) =>
        /\ \A id \in Ids : Cardinality(RecordLines(outFile, id)) <= 1
        /\ ret = Cardinality(written)

\* C3: after any sequence of completed or killed runs the output file holds
\* at most one record per identifier.
C3_AtMostOnce ==
    \A id \in Ids : Cardinality(RecordLines(outFile, id)) <= 1

\* C4: an identifier persisted in this run is in the set isDone tests for the
\* rest of the run, and no record is about to be written for it again.
C4_MarkDoneInMemory ==
    Running =>
        /\ \A id \in written : IsDone(id, scraped_ids)
        /\ pc = "appendOut" => data \notin written

\* C5: two successive permits are granted at least interval apart, whatever
\* the interleaving of the callers.
C5_RateInvariant ==
    permits >= 2 => last_called - prevGrant >= interval

C5_Witness ==
    /\ interval >= 1
    /\ permits >= 2
    /\ \E c \in Callers : rlPc[c] = "queued"

\* C6: with interval 0 the computed wait time is never positive and no caller
\* is ever suspended in the limiter.
C6_ZeroIntervalNeverBlocks ==
    interval = 0 =>
        /\ WaitTime(interval, clock, last_called) <= 0
        /\ \A c \in Callers : rlPc[c] \notin {"sleeping", "queued"}

C6_Witness ==
    /\ interval = 0
    /\ permits >= 2
    /\ clock > last_called
    /\ last_called > 0

\* C7: an append that failed, or was killed, after the temporary file was
\* written and before the append step leaves the target as it was before
\* the call.
C7_FailBeforeAppendKeepsTarget ==
    (fsOp \in AppendOps /\ fsFailedAt = "between") => fsTarget = fsPre

C7_Witness ==
    /\ fsOp \in AppendOps
    /\ fsFailedAt = "between"
    /\ fsPc \in {"raised", "killed"}
    /\ fsTemp = fsData
    /\ fsPre # <<>>

\* C8: during and after an append, a crash at any step included, the target
\* is its content before the call, or that content followed by the whole line.
C8_NoPartialLine ==
    fsOp \in AppendOps => fsTarget \in {fsPre, fsPre \o fsData}

\* C9: during and after save_json the target is exactly its old content or
\* exactly the new content, and it is the new content only once the fully
\* written temporary file was renamed onto it.
C9_SaveJsonAllOrNothing ==
    fsOp = "save_json" =>
        /\ fsTarget \in {fsPre, fsData}
        /\ fsTarget # fsPre =>
               fsPc = "returned" /\ fsTemp = fsData /\ ~fsTempExists

C9_Witness ==
    /\ fsOp = "save_json"
    /\ fsPc = "returned"
    /\ fsPre \notin {<<>>, fsData}
    /\ fsTarget = fsData

\* C10: a FileSystem call that raised in a run is not swallowed: from then on
\* the run only carries the exception out of scrape (the except block of the
\* request function, then the caller) or is killed; it never goes back to
\* its pages and items.
C10_FilesystemErrorFatal ==
    fsErr => pc \in {"logExc", "raised", "killed"}

\* The number, counted from one, of the page the loop is at.
PageNumber == page - FirstPage(adapter) + 1

\* C11: when the listing of a page that is not the last configured page is
\* empty, pagination ends there: the next state is the one that emits the
\* metadata, no later page is requested, and pages_scraped is the number of
\* that page.
C11_SoftStopOnEmptyPage ==
    [][(resp' = "empty" /\ page < LastPage(adapter, pages)) =>
           (pc' = "meta" /\ PagesScraped' = PageNumber)]_vars

\* C12: for every adapter, the step that follows the end of the page loop
\* writes the metadata file through save_json and returns the run's count.
C12_CompletedState ==
    [][pc = "meta" =>
           /\ pc' = "done"
           /\ "write" \in io'
           /\ metaFile' = Metadata
           /\ ret' = total_scraped]_vars

\* C13: the step in which the detail request is answered with the hidden
\* record writes no file, counts nothing and goes on to the next item; the
\* identifier is not added to the progress file.
C13_SentinelNotPersisted ==
    [][resp' = "hidden" =>
           /\ fileVars' = fileVars
           /\ appended' = appended /\ marked' = marked
           /\ total_scraped' = total_scraped /\ new_count' = new_count
           /\ "write" \notin io'
           /\ pc' = "item" /\ idx' = idx + 1]_vars

C13_Witness ==
    /\ resp = "hidden"
    /\ adapter = "steamspy"
    /\ pc = "item"
    /\ idx = 2
    /\ ~HasRecord(outFile, app_ids[1])
    /\ Str(app_ids[1]) \notin ReadLines(ledFile)

\* C14: a detail request that fails (status other than 200, or exception)
\* writes nothing but one message to the error log, counts nothing, and the
\* run goes on with the next item of the page.
C14_DetailErrorRecovered ==
    [][/\ (pc = "item" /\ resp' \in {"http", "exc"}) =>
            /\ fileVars' = fileVars
            /\ pc' \in {"logTry", "logExc"} /\ ctx' = "detail"
            /\ idx' = idx
       /\ (pc \in {"logTry", "logExc"} /\ ctx = "detail") =>
            /\ errFile' = AppendWhole(errFile, TextLine(ErrMsg))
            /\ outFile' = outFile /\ ledFile' = ledFile
            /\ appended' = appended /\ marked' = marked
            /\ total_scraped' = total_scraped /\ new_count' = new_count
            /\ pc' = "item" /\ idx' = idx + 1 /\ page' = page]_vars

C14_Witness ==
    /\ pc = "item"
    /\ io = {"write"}
    /\ appended = 0
    /\ idx = 2
    /\ Len(SplitLines(errFile)) = 1
    /\ outFile = <<>> /\ ledFile = <<>>

\* What the page loop does after an empty listing: IGDB leaves the loop,
\* SteamSpy and RAWG go on to the next page.
EmptyPageStops(a) == a = "igdb"

\* C15: a failed page request is logged with one message and the page loop
\* then does what it does after an empty listing of that adapter.
C15_ListErrorAsEmptyPage ==
    [][(pc \in {"logTry", "logExc"} /\ ctx = "list") =>
           /\ errFile' = AppendWhole(errFile, TextLine(ErrMsg))
           /\ pc' \in {"list", "meta"}
           /\ (pc' = "meta") <=> EmptyPageStops(adapter)]_vars

\* C16: at an item whose identifier is in scraped_ids the step acquires no
\* permit, sends no request, writes no file, changes no counter and goes on
\* to the next item.
C16_SkipHasNoEffect ==
    [][(pc = "item" /\ idx <= Len(app_ids)
            /\ Str(app_ids[idx]) \in scraped_ids) =>
           /\ io' = {}
           /\ resp' = "none"
           /\ fileVars' = fileVars
           /\ appended' = appended /\ marked' = marked
           /\ total_scraped' = total_scraped /\ new_count' = new_count
           /\ pc' = "item" /\ idx' = idx + 1]_vars

C16_Witness ==
    /\ pc = "item"
    /\ idx = 2
    /\ Str(app_ids[1]) \in scraped_ids
    /\ io = {}
    /\ outFile # <<>>

\* All items of the current page are processed.
PageEnds == pc = "item" /\ idx > Len(app_ids)

\* C17 as stated: at the end of a page the run suspends exactly when the
\* page was not the last configured one and an item was persisted on it.
C17_DelayEveryAdapter ==
    [][PageEnds =>
           ((pc' = "pageDelay") <=>
                (page < LastPage(adapter, pages) /\ pageNew))]_vars

\* C17 amended: SteamSpy suspends at the end of a page exactly when the page
\* was not the last configured one and an item was persisted on it; it
\* suspends nowhere else, and RAWG and IGDB never suspend between pages.
C17_InterPageDelay ==
    [][/\ PageEnds =>
            ((pc' = "pageDelay") <=>
                 /\ adapter = "steamspy"
                 /\ page < LastPage(adapter, pages)
                 /\ pageNew)
       /\ (pc' = "pageDelay" /\ pc # "pageDelay") => PageEnds]_vars

C17_Witness ==
    /\ pc = "pageDelay"
    /\ pageNew
    /\ page < LastPage(adapter, pages)
    /\ marked >= 1

\* C19: the value scrape returns, and the total it holds between pages, is
\* the number of append_jsonl calls and the number of save_progress calls
\* that returned in this run.
C19_ReturnIsAppendedCount ==
    /\ pc = "done" => (ret = appended /\ ret = marked)
    /\ pc \in {"list", "meta"} =>
           (total_scraped = appended /\ total_scraped = marked)

C19_Witness ==
    /\ pc = "done"
    /\ ret = 2
    /\ errFile # <<>>
    /\ ledFile # <<>>
    /\ Len(SplitLines(outFile)) >= 3

\* The lines of a progress file that hold one identifier.
LedgerLines(content, id) ==
    {k \in 1..Len(SplitLines(content)) : SplitLines(content)[k] = Str(id)}

\* C18: when the session has returned, the output file holds one line per
\* listed identifier and no other line, so does the progress file, and the
\* value returned is the number of listed identifiers.
C18_EndToEndCount ==
    pc = "done" =>
        /\ Len(SplitLines(outFile)) = Cardinality(listed)
        /\ \A id \in listed : Cardinality(RecordLines(outFile, id)) = 1
        /\ Len(SplitLines(ledFile)) = Cardinality(listed)
        /\ \A id \in listed : Cardinality(LedgerLines(ledFile, id)) = 1
        /\ ret = Cardinality(listed)

C18_Witness ==
    /\ pc = "done"
    /\ pages = 2
    /\ Cardinality(listed) = 4
    /\ ret = 4
    /\ Len(SplitLines(outFile)) = 4

\* C21: an authentication failure of a request (no token can be obtained) is
\* fatal for that request only: once it is logged, a session with pages left
\* goes on with its next page.
C21_AuthFailureSkipsRequest ==
    [][(resp = "auth" /\ pc = "logTry" /\ page < LastPage(adapter, pages)) =>
           (pc' = "list" /\ page' = page + 1)]_vars

\* C20: one request of scrape is sent to the API at most twice, however
\* often the server answers 401.
C20_AuthRetryBounded ==
    sends <= 2

\* C22: a runner whose provider needs credentials and finds none fails before
\* any I/O: no daily directory is created, no file changes, no HTTP request
\* is sent, no FileSystem is constructed, and the invocation exits with 1.
C22_MissingCredentialBeforeIO ==
    [][(runner \in {"rawg", "igdb"} /\ ~credentials /\ mnPc = "start") =>
           /\ dirs' = dirs
           /\ ledgers' = ledgers /\ outputs' = outputs
           /\ http' = FALSE
           /\ today' = 0
           /\ mnPc' \in {"start", "exited"}
           /\ mnPc' = "exited" => (exitCode' = 1 /\ outcome' = "config")]_vars

C22_Witness ==
    /\ runner = "igdb"
    /\ ~credentials
    /\ mnPc = "exited"
    /\ outcome = "config"
    /\ exitCode = 1
    /\ dirs = {}
    /\ ~http

\* C23 as claimed: an invocation that reached scrape exits with a failure
\* status exactly when scrape threw.
C23_FailedExactlyWhenThrows ==
    (mnPc = "exited" /\ outcome \in {"returned", "threw"}) =>
        ((exitCode = 1) <=> (outcome = "threw"))

\* C23: an invocation exits with 0 exactly when scrape returned a positive
\* count; it exits with 1 when scrape threw, when the credentials are missing
\* and when scrape returned zero.
C23_ExitStatus ==
    mnPc = "exited" =>
        exitCode = (IF outcome = "returned" /\ mnTotal > 0 THEN 0 ELSE 1)

C23_Witness ==
    /\ mnPc = "exited"
    /\ outcome = "returned"
    /\ mnTotal = 0
    /\ http
    /\ exitCode = 1

\* C29: every file an invocation reads or writes lies in the daily directory
\* of the day its FileSystem was constructed, also after midnight has passed:
\* the files of every other day stay as they are, the identifiers loaded are
\* the lines of that day's progress file, and they are none when the
\* directory was created by this invocation.
C29_DailyNamespace ==
    [][/\ \A d \in Days :
              d # today' => (ledgers'[d] = ledgers[d] /\ outputs'[d] = outputs[d])
       /\ (mnPc = "load" /\ mnPc' = "scrape") =>
              /\ mnScraped' = ReadLines(ledgers[today])
              /\ fresh => mnScraped' = {}]_vars

C29_Witness ==
    /\ invocations = 2
    /\ today = 1
    /\ date = 2
    /\ ~fresh
    /\ mnPc = "scrape"
    /\ mnScraped # {}
    /\ mnTotal > 0
    /\ ledgers[2] = <<>>

\* C25: within a run no detail request is sent, and no record is handed to
\* the output file, for an identifier this run has already persisted.
C25_NoRetryWithinRun ==
    [][(pc = "item" /\ idx <= Len(app_ids) /\ app_ids[idx] \in written) =>
           ("request" \notin io' /\ pc' # "appendOut")]_vars

\* C26: an identifier whose save_progress returned in this run is among the
\* identifiers load_progress reads from the progress file, now and in every
\* later session of the day.
C26_MarkedIsLoaded ==
    \A id \in written : Str(id) \in LoadProgress(ledFile)

C28_AppendOnly ==
    [][fsOp' \in AppendOps => fsTarget \in Prefixes(fsTarget')]_vars

C28_Witness ==
    /\ fsOp \in AppendOps
    /\ fsFailedAt = "append"
    /\ fsPre # <<>>
    /\ fsTarget \notin {fsPre, fsPre \o fsData}
    /\ fsCalls = 2

C31_CallbackAfterDecision ==
    [][cbCalls' = cbCalls + 1 => (pc' = "item" /\ idx' = cbCalls' + 1)]_vars

\* C31: the callback is invoked exactly once for every item of a page,
\* skipped items included, at the start of the item's loop body and so before
\* the decision for it: at item idx it was invoked idx - 1 times, and while
\* the item is being persisted or its failure logged it was invoked idx times,
\* the latest time with (idx - 1, item count of the page, page label).
C31_CallbackBeforeDecision ==
    /\ pc = "item" => cbCalls = idx - 1
    /\ (\/ pc \in {"appendOut", "saveProgress"}
        \/ (pc \in {"logTry", "logExc"} /\ ctx = "detail")) =>
           /\ cbCalls = idx
           /\ cbArgs = <<idx - 1, Len(app_ids), PageLabel(adapter, page)>>

C31_Witness ==
    /\ pc = "appendOut"
    /\ idx = 2
    /\ cbCalls = 2
    /\ appended = 0
    /\ IsDone(app_ids[1], scraped_ids)

\* C32: SteamSpy goes on to the next page index after an empty or a failed
\* page listing, and its page index only ever grows by one; RAWG and IGDB
\* leave the page loop at the first empty or failed listing of a page that
\* is not the last configured one.
C32_AdapterPagePolicy ==
    [][/\ (/\ page < LastPage(adapter, pages)
           /\ \/ resp' \in {"empty", "noresults"}
              \/ (pc \in {"logTry", "logExc"} /\ ctx = "list")) =>
             IF adapter = "steamspy"
             THEN pc' = "list" /\ page' = page + 1
             ELSE pc' = "meta"
       /\ (adapter = "steamspy" /\ pc' \in {"list", "item"} /\ pc # "idle") =>
             page' \in {page, page + 1}]_vars

\* C33: a run whose HTTP calls and file operations all return ends in the
\* completed state: no exception leaves scrape.
C33_RunEndsCompleted ==
    pc # "raised"

\* C35: when an IGDB page lists fewer than page_size records, the page loop
\* ends once they are processed, without a further page request, and the run
\* then completes: it writes the metadata with pages_scraped the number of
\* pages requested and returns its count.
C35_ShortPageCompletes ==
    [][/\ (adapter = "igdb" /\ PageEnds /\ Len(app_ids) < page_size) =>
              (pc' = "meta" /\ page' = page)
       /\ (adapter = "igdb" /\ pc = "meta"
               /\ 0 < Len(app_ids) /\ Len(app_ids) < page_size) =>
              /\ pc' = "done"
              /\ metaFile' = <<PageNumber, total_scraped>>
              /\ ret' = total_scraped]_vars

\* C36: in RAWG and IGDB a record without an id or a name ("hidden") is not
\* appended to the output file, not marked in the progress file and not
\* counted; the loop goes on to the next item, and the identifier, unless this
\* run persisted it before, is not among those the next run loads.
C36_InvalidRecordNotPersisted ==
    [][(adapter \in {"rawg", "igdb"} /\ resp' = "hidden") =>
           /\ fileVars' = fileVars
           /\ appended' = appended /\ marked' = marked
           /\ total_scraped' = total_scraped
           /\ scraped_ids' = scraped_ids
           /\ pc' = "item" /\ idx' = idx + 1
           /\ app_ids[idx] \notin written =>
                  ~IsDone(app_ids[idx], LoadProgress(ledFile'))]_vars

C36_Witness ==
    /\ adapter = "igdb"
    /\ resp = "hidden"
    /\ pc = "item"
    /\ idx = 3
    /\ appended = 1
    /\ Len(SplitLines(outFile)) = 1

\* C34: the limiter's lock is held only by a caller waiting in __aenter__ for
\* its permit, never by a caller that was granted one, and every caller that
\* waits for the lock or for its permit is eventually granted, a caller that
\* entered the limiter again inside a block of it included.
C34_NoDeadlockNoStarvation ==
    /\ [](lock # NoCaller => rlPc[lock] = "sleeping")
    /\ \A c \in Callers : (rlPc[c] \in {"queued", "sleeping"}) ~> (rlPc[c] = "granted")

C34_Witness ==
    /\ interval >= 1
    /\ \E c \in Callers :
          /\ rlPc[c] = "granted"
          /\ held[c] = 2
          /\ \E d \in Callers : d # c /\ rlPc[d] = "queued"

====
